---- MODULE Spec2Model ----
(***************************************************************************)
(* Flakely (src/flakely.py): a generator of signed 50-byte identifiers.    *)
(*                                                                         *)
(* A token is  identifier(4) counter(2) process(4) device(4) tick(4)       *)
(* followed by sha256(payload + secret) (32 bytes), every field            *)
(* little-endian.  The model keeps the field widths of the program and     *)
(* scales the number of values one byte can take (ByteBase, 256 in the     *)
(* program), so that a field of n bytes holds 0 .. ByteBase^n - 1 and      *)
(* int.to_bytes raises OverflowError outside that range, as in Python.     *)
(***************************************************************************)
EXTENDS Integers, Sequences, FiniteSets

\* ---------------------------------------------------------------- sizes
COUNTER_SIZE == 2
DEVICE_ID_SIZE == 4
IDENTIFIER_SIZE == 4
PROCESS_ID_SIZE == 4
SIGNATURE_SIZE == 32
TICK_SIZE == 4

\* Values of one byte in the model (the program's bytes have 256).
ByteBase == 2
\* Largest in-range tick the clock returns in the model.
MaxTick == 2
\* The threads stop calling once the shared counter has reached this value.
MaxThreadCounter == 2
\* An instance of a pair stops minting once its counter has reached this value.
MaxPairCounter == 2

RECURSIVE Pow(_, _)
Pow(b, n) == IF n = 0 THEN 1 ELSE b * Pow(b, n - 1)

\* The first value that does not fit in `size` unsigned bytes.
Limit(size) == Pow(ByteBase, size)

\* The sequencer is stopped once the counter is past its field's range.
MaxCounter == Limit(COUNTER_SIZE) + 1

Instances == {1, 2}
Threads == {1, 2}

\* ------------------------------------------------- int.to_bytes, from_bytes
Zeros(n) == [k \in 1..n |-> 0]

\* int.to_bytes(length, "little") of a machine-sized int: the little-endian
\* digits, or OverflowError for a negative value or one that does not fit.
LittleEndian(v, length) == [k \in 1..length |-> (v \div Pow(ByteBase, k - 1)) % ByteBase]

to_bytes_wrapping(v, length) ==
    [raised |-> FALSE, bytes |-> LittleEndian(v % Limit(length), length)]

to_bytes(v, length) ==
    IF v < 0 \/ v >= Limit(length)
    THEN [raised |-> TRUE, bytes |-> << >>]
    ELSE [raised |-> FALSE, bytes |-> LittleEndian(v, length)]

\* The value of a little-endian field (the decoding of to_bytes).
RECURSIVE FieldValue(_)
FieldValue(bytes) ==
    IF bytes = << >> THEN 0 ELSE Head(bytes) + ByteBase * FieldValue(Tail(bytes))

\* A Python int too wide for TLC's integers (the 50-byte token) is held the
\* way CPython holds it: a sign and the minimal little-endian digit
\* string (no high-order zero digits).
RECURSIVE StripHighZeros(_)
StripHighZeros(digits) ==
    IF digits = << >> THEN << >>
    ELSE IF digits[Len(digits)] = 0
         THEN StripHighZeros(SubSeq(digits, 1, Len(digits) - 1))
         ELSE digits

\* int.from_bytes(bytes, byteorder="little")
Reversed(bytes) == [k \in 1..Len(bytes) |-> bytes[Len(bytes) + 1 - k]]

from_bytes_big_endian(bytes) == [neg |-> FALSE, mag |-> StripHighZeros(Reversed(bytes))]

from_bytes(bytes) == [neg |-> FALSE, mag |-> StripHighZeros(bytes)]

\* int.to_bytes(length, "little") of such an int
big_to_bytes_truncating(x, length) ==
    [raised |-> FALSE,
     bytes |-> [k \in 1..length |-> IF k <= Len(x.mag) THEN x.mag[k] ELSE 0]]

big_to_bytes(x, length) ==
    IF x.neg \/ Len(x.mag) > length
    THEN [raised |-> TRUE, bytes |-> << >>]
    ELSE [raised |-> FALSE, bytes |-> x.mag \o Zeros(length - Len(x.mag))]

\* ------------------------------------------------------------- signature
RECURSIVE WeightedSum(_, _)
WeightedSum(msg, j) ==
    IF j > Len(msg) THEN 0 ELSE j * msg[j] + WeightedSum(msg, j + 1)

\* hashlib.sha256(msg).digest(): a fixed function of the whole message to
\* SIGNATURE_SIZE bytes (a position-weighted checksum, spread over the
\* digest's bytes, stands for the digest).
sha256(msg) ==
    LET n == Len(msg)
        s == WeightedSum(msg, 1) + n
    IN  [k \in 1..SIGNATURE_SIZE |->
            (s \div k + (IF n = 0 THEN 0 ELSE msg[(k % n) + 1])) % ByteBase]

get_signature(flake, sec) == sha256(flake \o sec)

\* ------------------------------------------------------------- sequencer
update_counter_keeping(last, counter, tick) ==
    IF tick = last
    THEN [last |-> last, counter |-> counter + 1]
    ELSE [last |-> tick, counter |-> counter]

update_counter(last, counter, tick) ==
    IF tick = last
    THEN [last |-> last, counter |-> counter + 1]
    ELSE [last |-> tick, counter |-> 0]

\* ---------------------------------------------------------------- codec
PAYLOAD_SIZE ==
    COUNTER_SIZE + DEVICE_ID_SIZE + IDENTIFIER_SIZE + PROCESS_ID_SIZE + TICK_SIZE
FLAKE_SIZE == PAYLOAD_SIZE + SIGNATURE_SIZE

\* Lines 48-55 of generate_bytes: the fields are converted in order and the
\* first conversion that raises ends the call.
encode_flake_wrapping(identifier, counter, proc, dev, tick, sec) ==
    LET a == to_bytes(identifier, IDENTIFIER_SIZE)
        b == to_bytes_wrapping(counter, COUNTER_SIZE)
        c == to_bytes_wrapping(proc, PROCESS_ID_SIZE)
        d == to_bytes_wrapping(dev, DEVICE_ID_SIZE)
        e == to_bytes_wrapping(tick, TICK_SIZE)
    IN  IF a.raised
        THEN [raised |-> TRUE, flake |-> << >>]
        ELSE LET payload == a.bytes \o b.bytes \o c.bytes \o d.bytes \o e.bytes
             IN  [raised |-> FALSE, flake |-> payload \o get_signature(payload, sec)]

encode_flake_without_device(identifier, counter, proc, dev, tick, sec) ==
    LET a == to_bytes(identifier, IDENTIFIER_SIZE)
        b == to_bytes(counter, COUNTER_SIZE)
        c == to_bytes(proc, PROCESS_ID_SIZE)
        d == to_bytes(dev, DEVICE_ID_SIZE)
        e == to_bytes(tick, TICK_SIZE)
    IN  IF a.raised \/ b.raised \/ c.raised \/ d.raised \/ e.raised
        THEN [raised |-> TRUE, flake |-> << >>]
        ELSE LET payload == a.bytes \o b.bytes \o c.bytes \o Zeros(DEVICE_ID_SIZE) \o e.bytes
             IN  [raised |-> FALSE, flake |-> payload \o get_signature(payload, sec)]

encode_flake(identifier, counter, proc, dev, tick, sec) ==
    LET a == to_bytes(identifier, IDENTIFIER_SIZE)
        b == to_bytes(counter, COUNTER_SIZE)
        c == to_bytes(proc, PROCESS_ID_SIZE)
        d == to_bytes(dev, DEVICE_ID_SIZE)
        e == to_bytes(tick, TICK_SIZE)
    IN  IF a.raised \/ b.raised \/ c.raised \/ d.raised \/ e.raised
        THEN [raised |-> TRUE, flake |-> << >>]
        ELSE LET payload == a.bytes \o b.bytes \o c.bytes \o d.bytes \o e.bytes
             IN  [raised |-> FALSE, flake |-> payload \o get_signature(payload, sec)]

\* The fields of a flake, by the layout of lines 49-53.
IdentifierField(flake) == FieldValue(SubSeq(flake, 1, IDENTIFIER_SIZE))
CounterField(flake) ==
    FieldValue(SubSeq(flake, IDENTIFIER_SIZE + 1, IDENTIFIER_SIZE + COUNTER_SIZE))
ProcessField(flake) ==
    FieldValue(SubSeq(flake, IDENTIFIER_SIZE + COUNTER_SIZE + 1,
                      IDENTIFIER_SIZE + COUNTER_SIZE + PROCESS_ID_SIZE))
DeviceField(flake) ==
    FieldValue(SubSeq(flake, IDENTIFIER_SIZE + COUNTER_SIZE + PROCESS_ID_SIZE + 1,
                      PAYLOAD_SIZE - TICK_SIZE))
TickField(flake) == FieldValue(SubSeq(flake, PAYLOAD_SIZE - TICK_SIZE + 1, PAYLOAD_SIZE))
Payload(flake) == SubSeq(flake, 1, PAYLOAD_SIZE)
Signature(flake) == SubSeq(flake, PAYLOAD_SIZE + 1, Len(flake))

\* validate(flake): "True", "False", or the OverflowError of flake.to_bytes.
validate_result(flake, sec) ==
    LET b == big_to_bytes(flake, FLAKE_SIZE)
    IN  IF b.raised THEN "OverflowError"
        ELSE IF Signature(b.bytes) = get_signature(Payload(b.bytes), sec)
             THEN "True" ELSE "False"

\* ----------------------------------------------------------------- state
VARIABLES
    device, process, secret,             \* per instance, fixed by __init__
    last_generated, generation_counter,  \* per instance: _last_generated, _generation_counter
    ret,          \* per instance: the latest generate_bytes call and its outcome
    tickRun,      \* per instance: the calls since the observed tick last changed
    uniform,      \* per instance: every call so far returned a flake, for one identifier
    marked,       \* per instance, while uniform: one of the flakes returned so far, any
    vres,         \* the latest validate call, the instance it was made on, its outcome
    pc, t_identifier, t_tick, t_counter, t_ret,  \* per thread
    overlap       \* both threads were past update_counter before either encoded

vars == <<device, process, secret, last_generated, generation_counter, ret, tickRun,
          marked, uniform, vres, pc, t_identifier, t_tick, t_counter,
          t_ret, overlap>>

identity == <<device, process, secret>>
history == <<tickRun, marked, uniform>>
threadVars == <<pc, t_identifier, t_tick, t_counter, t_ret, overlap>>

\* ---------------------------------------------------------------- inputs
InRangeTicks == 0..MaxTick
Ticks == InRangeTicks \cup {Limit(TICK_SIZE)}
Identifiers == {0, Limit(IDENTIFIER_SIZE) - 1, Limit(IDENTIFIER_SIZE), -1}
Devices == {1, Limit(DEVICE_ID_SIZE)}
Processes == {1, Limit(PROCESS_ID_SIZE)}
Secrets == {<< >>, <<1>>}

NoCall == [called |-> FALSE, tick |-> 0, identifier |-> 0, raised |-> FALSE, flake |-> << >>]
NoRun == [tokens |-> 0, fails |-> 0, oneId |-> TRUE]
NoValidate == [called |-> FALSE, by |-> 1, flake |-> from_bytes(<< >>), out |-> "None"]

\* __init__ (lines 28-39) for every instance, the threads not started.
InitWith(configs) ==
    /\ \E c \in configs :
          /\ device = [i \in Instances |-> c[i].device]
          /\ process = [i \in Instances |-> c[i].process]
          /\ secret = [i \in Instances |-> c[i].secret]
    /\ last_generated = [i \in Instances |-> 0]
    /\ generation_counter = [i \in Instances |-> 0]
    /\ ret = [i \in Instances |-> NoCall]
    /\ tickRun = [i \in Instances |-> NoRun]
    /\ marked = [i \in Instances |-> << >>]
    /\ uniform = [i \in Instances |-> TRUE]
    /\ vres = NoValidate
    /\ pc = [th \in Threads |-> "idle"]
    /\ t_identifier = [th \in Threads |-> 0]
    /\ t_tick = [th \in Threads |-> 0]
    /\ t_counter = [th \in Threads |-> 0]
    /\ t_ret = [th \in Threads |-> NoCall]
    /\ overlap = FALSE

\* ------------------------------------------------------- generate_bytes
\* The sequencer after a call: update_counter (line 46) runs before any
\* conversion can raise (lines 49-53), so whatever the call's outcome.
sequencer_rolled_back(last, counter, tick, raised) ==
    IF raised THEN [last |-> last, counter |-> counter]
    ELSE update_counter(last, counter, tick)

sequencer_after_call(last, counter, tick, raised) ==
    update_counter(last, counter, tick)

\* One whole generate_bytes(identifier) call on instance i whose get_tick()
\* returned tick.
Generate(i, identifier, tick) ==
    /\ generation_counter[i] <= MaxCounter
    /\ \E r \in {encode_flake(identifier,
                  update_counter(last_generated[i], generation_counter[i], tick).counter,
                  process[i], device[i], tick, secret[i])} :
       LET s == sequencer_after_call(last_generated[i], generation_counter[i], tick, r.raised)
           sameRun == ret[i].called /\ ret[i].tick = tick
           base == IF sameRun THEN tickRun[i] ELSE NoRun
       IN  /\ last_generated' = [last_generated EXCEPT ![i] = s.last]
           /\ generation_counter' = [generation_counter EXCEPT ![i] = s.counter]
           /\ ret' = [ret EXCEPT ![i] = [called |-> TRUE, tick |-> tick,
                                        identifier |-> identifier,
                                        raised |-> r.raised, flake |-> r.flake]]
           /\ tickRun' = [tickRun EXCEPT ![i] =
                            [tokens |-> base.tokens + (IF r.raised THEN 0 ELSE 1),
                             fails |-> base.fails + (IF r.raised THEN 1 ELSE 0),
                             oneId |-> base.oneId /\ (sameRun => ret[i].identifier = identifier)]]
           /\ uniform' = [uniform EXCEPT ![i] =
                            /\ uniform[i]
                            /\ ~r.raised
                            /\ (ret[i].called => ret[i].identifier = identifier)]
           /\ \E keep \in (IF uniform'[i] THEN {marked[i], r.flake} ELSE {<< >>}) :
                 marked' = [marked EXCEPT ![i] = keep]
    /\ UNCHANGED <<identity, vres, threadVars>>

\* generate(identifier): the flake of generate_bytes as an int (line 42).
generate(flake) == from_bytes(flake)

\* ---------------------------------------------------------------- validate
\* The ints handed to validate: what generate returned on some instance,
\* that flake with one byte changed, 0, the first int past 50 bytes, and a
\* negative int.
TamperAt == {PAYLOAD_SIZE, PAYLOAD_SIZE + 1}
Tampered(flake, p) == [flake EXCEPT ![p] = (flake[p] + 1) % ByteBase]
Returned == {ret[i].flake : i \in {j \in Instances : ret[j].called /\ ~ret[j].raised}}
ValidateInputs ==
    {generate(f) : f \in Returned}
    \cup {from_bytes(Tampered(f, p)) : f \in Returned, p \in TamperAt}
    \cup {from_bytes(<< >>),
          [neg |-> FALSE, mag |-> Zeros(FLAKE_SIZE) \o <<1>>],
          [neg |-> TRUE, mag |-> <<1>>]}

\* One whole validate(flake) call on instance i.
Validate(i, flake) ==
    /\ vres' = [called |-> TRUE, by |-> i, flake |-> flake,
                out |-> validate_result(flake, secret[i])]
    /\ UNCHANGED <<identity, last_generated, generation_counter, ret, history, threadVars>>

\* ---------------------------------------------------------------- threads
\* Two threads call generate_bytes on instance 1 with no lock.  A thread's
\* steps are get_tick (line 45), the steps of update_counter (the test of
\* line 64, the load and the store of line 65, the stores of lines 68 and
\* 69) and the encoding (lines 48-55), which reads _generation_counter
\* again at line 50.
Shared == 1

\* The counter value a thread encodes at line 50.
encoded_counter_own(th) == t_counter[th]

encoded_counter(th) == generation_counter[Shared]

OverlapAfter(newpc) ==
    IF \A th \in Threads : newpc[th] = "encode" THEN TRUE ELSE overlap

Step(th, from, to) ==
    /\ pc[th] = from
    /\ pc' = [pc EXCEPT ![th] = to]
    /\ overlap' = OverlapAfter(pc')

T_Call(th, identifier) ==
    /\ pc[th] = "idle"
    /\ generation_counter[Shared] < MaxThreadCounter
    /\ pc' = [pc EXCEPT ![th] = "get_tick"]
    /\ t_identifier' = [t_identifier EXCEPT ![th] = identifier]
    /\ t_tick' = [t_tick EXCEPT ![th] = 0]
    /\ t_counter' = [t_counter EXCEPT ![th] = 0]
    /\ t_ret' = [t_ret EXCEPT ![th] = NoCall]
    /\ overlap' = FALSE
    /\ UNCHANGED <<identity, last_generated, generation_counter, ret, history, vres>>

T_GetTick(th, tick) ==
    /\ Step(th, "get_tick", "compare")
    /\ t_tick' = [t_tick EXCEPT ![th] = tick]
    /\ UNCHANGED <<identity, last_generated, generation_counter, ret, history, vres,
                   t_identifier, t_counter, t_ret>>

T_Compare(th) ==
    /\ pc[th] = "compare"
    /\ pc' = [pc EXCEPT ![th] =
                IF t_tick[th] = last_generated[Shared] THEN "load" ELSE "set_last"]
    /\ UNCHANGED <<identity, last_generated, generation_counter, ret, history, vres,
                   t_identifier, t_tick, t_counter, t_ret, overlap>>

T_Load(th) ==
    /\ Step(th, "load", "store")
    /\ t_counter' = [t_counter EXCEPT ![th] = generation_counter[Shared]]
    /\ UNCHANGED <<identity, last_generated, generation_counter, ret, history, vres,
                   t_identifier, t_tick, t_ret>>

T_Store(th) ==
    /\ Step(th, "store", "encode")
    /\ generation_counter' = [generation_counter EXCEPT ![Shared] = t_counter[th] + 1]
    /\ t_counter' = [t_counter EXCEPT ![th] = t_counter[th] + 1]
    /\ UNCHANGED <<identity, last_generated, ret, history, vres,
                   t_identifier, t_tick, t_ret>>

T_SetLast(th) ==
    /\ Step(th, "set_last", "set_counter")
    /\ last_generated' = [last_generated EXCEPT ![Shared] = t_tick[th]]
    /\ UNCHANGED <<identity, generation_counter, ret, history, vres,
                   t_identifier, t_tick, t_counter, t_ret>>

T_SetCounter(th) ==
    /\ Step(th, "set_counter", "encode")
    /\ generation_counter' = [generation_counter EXCEPT ![Shared] = 0]
    /\ t_counter' = [t_counter EXCEPT ![th] = 0]
    /\ UNCHANGED <<identity, last_generated, ret, history, vres,
                   t_identifier, t_tick, t_ret>>

T_Encode(th) ==
    /\ Step(th, "encode", "done")
    /\ \E r \in {encode_flake(t_identifier[th], encoded_counter(th), process[Shared],
                                device[Shared], t_tick[th], secret[Shared])} :
           t_ret' = [t_ret EXCEPT ![th] = [called |-> TRUE, tick |-> t_tick[th],
                                           identifier |-> t_identifier[th],
                                           raised |-> r.raised, flake |-> r.flake]]
    /\ UNCHANGED <<identity, last_generated, generation_counter, ret, history, vres,
                   t_identifier, t_tick, t_counter>>

T_Return(th) ==
    /\ Step(th, "done", "idle")
    /\ UNCHANGED <<identity, last_generated, generation_counter, ret, history, vres,
                   t_identifier, t_tick, t_counter, t_ret>>

\* ----------------------------------------------------------------- specs
Identities == [device : Devices, process : Processes, secret : Secrets]
DefaultIdentity == [device |-> 0, process |-> 1, secret |-> << >>]

Init == InitWith({<<c, DefaultIdentity>> : c \in Identities})

Next == \E id \in Identifiers, t \in Ticks : Generate(1, id, t)

Spec == Init /\ [][Next]_vars

\* generate and validate: instance 1 mints, both instances validate; the
\* two instances hold different secrets.
FitIdentifiers == {0, Limit(IDENTIFIER_SIZE) - 1}
FewTicks == {0, 1}
InitValidate ==
    InitWith({<<[device |-> 1, process |-> 1, secret |-> sec],
               [device |-> 1, process |-> 1, secret |-> <<0>>]>> : sec \in Secrets})

NextValidate ==
    \/ \E id \in FitIdentifiers, t \in FewTicks : Generate(1, id, t)
    \/ \E i \in Instances, f \in ValidateInputs : Validate(i, f)

SpecValidate == InitValidate /\ [][NextValidate]_vars

\* Two instances, each with its own device and process, minting in any
\* interleaving.
PairIdentities == [device : {0, 1}, process : {0, 1}, secret : {<< >>}]
InitPair == InitWith(PairIdentities \X PairIdentities)

NextPair ==
    \E i \in Instances, t \in FewTicks :
        generation_counter[i] < MaxPairCounter /\ Generate(i, 0, t)

SpecPair == InitPair /\ [][NextPair]_vars

\* Two threads on one instance.
InitThreads == InitWith({<<[device |-> 1, process |-> 1, secret |-> << >>], DefaultIdentity>>})

NextThreads ==
    \E th \in Threads :
        \/ \E id \in FitIdentifiers : T_Call(th, id)
        \/ \E t \in InRangeTicks : T_GetTick(th, t)
        \/ T_Compare(th)
        \/ T_Load(th)
        \/ T_Store(th)
        \/ T_SetLast(th)
        \/ T_SetCounter(th)
        \/ T_Encode(th)
        \/ T_Return(th)

SpecThreads == InitThreads /\ [][NextThreads]_vars

\* ---------------------------------------------------------------- claims
InRange(v, size) == 0 <= v /\ v < Limit(size)

\* Everything but the identifier fits its field when instance i encodes
\* counter value c at tick t.
InternalFieldsFit(i, c, t) ==
    /\ InRange(c, COUNTER_SIZE)
    /\ InRange(process[i], PROCESS_ID_SIZE)
    /\ InRange(device[i], DEVICE_ID_SIZE)
    /\ InRange(t, TICK_SIZE)

\* C1: N consecutive successful calls (N < 2^16 in the program) for one
\* identifier that all observe the same tick, begun on a fresh instance or
\* right after a call that observed another tick, return flakes whose
\* counter fields are 0, 1, ..., N-1 in call order and whose identifier,
\* process, device and tick fields are the same throughout: the N-th flake
\* of such a run carries counter N-1 and the call's values elsewhere.
C1_RunCountsFromZero ==
    \A i \in Instances :
        (/\ ret[i].called
         /\ ~ret[i].raised
         /\ tickRun[i].fails = 0
         /\ tickRun[i].oneId
         /\ tickRun[i].tokens < Limit(COUNTER_SIZE))
        => /\ CounterField(ret[i].flake) = tickRun[i].tokens - 1
           /\ IdentifierField(ret[i].flake) = ret[i].identifier
           /\ ProcessField(ret[i].flake) = process[i]
           /\ DeviceField(ret[i].flake) = device[i]
           /\ TickField(ret[i].flake) = ret[i].tick

\* C2: when two consecutive calls on one instance observe different ticks
\* (the second larger or smaller), the flake the second call returns has
\* counter field 0 whatever the counter was, and afterwards _last_generated
\* is the second call's tick.
C2_TickChangeResets ==
    [][\A id \in Identifiers, t \in Ticks :
          (/\ Generate(1, id, t)
           /\ ret[1].called
           /\ ret[1].tick # t
           /\ ~ret'[1].raised)
          => /\ CounterField(ret'[1].flake) = 0
             /\ last_generated'[1] = t]_vars

\* The first call at a tick returned a flake with counter 0, after flakes
\* of a larger tick, one of them with a counter above 0.
C2_Witness ==
    /\ ret[1].called /\ ~ret[1].raised
    /\ tickRun[1].tokens = 1 /\ tickRun[1].fails = 0
    /\ CounterField(ret[1].flake) = 0
    /\ marked[1] # << >>
    /\ TickField(marked[1]) > ret[1].tick
    /\ CounterField(marked[1]) > 0

\* C4: in a sequence of successful calls for one identifier, whatever ticks
\* the clock returns (also backward and back again), two flakes with the
\* same tick field are distinct and their counter fields increase in call
\* order: a new flake differs from, and counts above, any flake returned
\* before it with its tick.
C4_DistinctAndOrderedPerTick ==
    [][\A id \in Identifiers, t \in Ticks :
          (/\ Generate(1, id, t)
           /\ uniform'[1]
           /\ marked[1] # << >>
           /\ TickField(marked[1]) = t)
          => /\ ret'[1].flake # marked[1]
             /\ CounterField(ret'[1].flake) > CounterField(marked[1])]_vars

\* C5: a call whose identifier does not fit 4 unsigned bytes (too large or
\* negative) raises and returns no flake; a call whose identifier fits, the
\* internal fields fitting too, returns a flake of 50 bytes.
C5_IdentifierRange ==
    [][\A id \in Identifiers, t \in Ticks :
          Generate(1, id, t)
          => /\ ~InRange(id, IDENTIFIER_SIZE)
                  => ret'[1].raised /\ ret'[1].flake = << >>
             /\ (InRange(id, IDENTIFIER_SIZE)
                 /\ InternalFieldsFit(1, generation_counter'[1], t))
                  => /\ ~ret'[1].raised
                     /\ Len(ret'[1].flake) = FLAKE_SIZE
                     /\ IdentifierField(ret'[1].flake) = id]_vars

\* A call with the first identifier past the field's range raised, on an
\* instance that had returned a flake before.
C5_Witness ==
    /\ ret[1].called /\ ret[1].raised
    /\ ret[1].identifier = Limit(IDENTIFIER_SIZE)
    /\ InternalFieldsFit(1, generation_counter[1], ret[1].tick)
    /\ tickRun[1].tokens > 0

\* C8 as stated: a call whose identifier fits but whose counter, process,
\* device or tick is past its field's range still returns a flake, the field
\* cut to its low-order bytes (the counter wrapping to 0).
C8_SilentTruncation ==
    [][\A id \in Identifiers, t \in Ticks :
          (/\ Generate(1, id, t)
           /\ InRange(id, IDENTIFIER_SIZE)
           /\ t >= 0
           /\ ~InternalFieldsFit(1, generation_counter'[1], t))
          => /\ ~ret'[1].raised
             /\ CounterField(ret'[1].flake) = generation_counter'[1] % Limit(COUNTER_SIZE)
             /\ ProcessField(ret'[1].flake) = process[1] % Limit(PROCESS_ID_SIZE)
             /\ DeviceField(ret'[1].flake) = device[1] % Limit(DEVICE_ID_SIZE)
             /\ TickField(ret'[1].flake) = t % Limit(TICK_SIZE)]_vars

\* C8 as amended: such a call raises OverflowError and returns no flake, the
\* counter staying past its range (so the call after 2^16 flakes of one tick
\* fails, and so does every call on an instance whose process or device, or
\* whose clock's tick, is past 4 bytes).
C8_OverflowRaises ==
    [][\A id \in Identifiers, t \in Ticks :
          (/\ Generate(1, id, t)
           /\ InRange(id, IDENTIFIER_SIZE)
           /\ ~InternalFieldsFit(1, generation_counter'[1], t))
          => /\ ret'[1].raised
             /\ ret'[1].flake = << >>
             /\ (generation_counter[1] >= Limit(COUNTER_SIZE) /\ t = last_generated[1])
                  => generation_counter'[1] > Limit(COUNTER_SIZE)]_vars

\* The call after a full run of counters 0 .. 2^16 - 1 in one tick raised.
C8_Witness ==
    /\ ret[1].called /\ ret[1].raised
    /\ InRange(ret[1].identifier, IDENTIFIER_SIZE)
    /\ InRange(process[1], PROCESS_ID_SIZE)
    /\ InRange(device[1], DEVICE_ID_SIZE)
    /\ InRange(ret[1].tick, TICK_SIZE)
    /\ tickRun[1].tokens = Limit(COUNTER_SIZE)
    /\ tickRun[1].fails = 1
    /\ generation_counter[1] = Limit(COUNTER_SIZE)

\* The latest call of instance i raised on its identifier.
IdentifierFailure(i) ==
    /\ ret[i].called
    /\ ret[i].raised
    /\ ~InRange(ret[i].identifier, IDENTIFIER_SIZE)

\* A call that raises on its identifier has moved the sequencer as a
\* successful call does.
FailedCallAdvances(id, t) ==
    (Generate(1, id, t) /\ ~InRange(id, IDENTIFIER_SIZE))
    => /\ ret'[1].raised
       /\ ret'[1].flake = << >>
       /\ last_generated'[1] = t
       /\ generation_counter'[1] =
            IF t = last_generated[1] THEN generation_counter[1] + 1 ELSE 0

Padded(x) == x.mag \o Zeros(FLAKE_SIZE - Len(x.mag))

\* C3: the int generate returned is accepted by validate on the same
\* instance, also when high-order signature bytes are zero.
C3_GeneratedValidates ==
    \A i \in Instances :
        (/\ vres.called
         /\ vres.by = i
         /\ ret[i].called
         /\ ~ret[i].raised
         /\ vres.flake = generate(ret[i].flake))
        => vres.out = "True"

\* validate accepted a generated flake whose highest signature byte is 0.
C3_Witness ==
    /\ vres.called /\ vres.by = 1
    /\ ret[1].called /\ ~ret[1].raised
    /\ vres.flake = generate(ret[1].flake)
    /\ ret[1].flake[FLAKE_SIZE] = 0
    /\ Len(vres.flake.mag) < FLAKE_SIZE
    /\ vres.out = "True"

\* C6: for an int that fits 50 unsigned bytes validate returns a boolean,
\* False whenever the last 32 bytes are not the digest of the first 18 and
\* the secret; for a negative int or one past 50 bytes it raises.
C6_FalseOrError ==
    vres.called =>
        LET x == vres.flake
        IN  IF ~x.neg /\ Len(x.mag) <= FLAKE_SIZE
            THEN /\ vres.out \in {"True", "False"}
                 /\ Signature(Padded(x)) # sha256(Payload(Padded(x)) \o secret[vres.by])
                      => vres.out = "False"
            ELSE vres.out = "OverflowError"

\* validate raised on the first int past 50 bytes, on an instance that had
\* returned a flake.
C6_Witness ==
    /\ vres.called /\ vres.by = 1
    /\ vres.out = "OverflowError"
    /\ ~vres.flake.neg
    /\ vres.flake.mag = Zeros(FLAKE_SIZE) \o <<1>>
    /\ ret[1].called /\ ~ret[1].raised

DistinctPair == <<device[1], process[1]>> # <<device[2], process[2]>>

\* C7: two instances whose (device, process) pairs differ never return the
\* same payload (marked[i] being any flake instance i has returned), and a
\* call on one instance leaves the other's sequencer as it was.
C7_NoSharedPayload ==
    /\ []((DistinctPair /\ marked[1] # << >> /\ marked[2] # << >>)
            => Payload(marked[1]) # Payload(marked[2]))
    /\ [][\A i \in Instances, t \in FewTicks :
            Generate(i, 0, t) =>
                \A j \in Instances \ {i} :
                    /\ last_generated'[j] = last_generated[j]
                    /\ generation_counter'[j] = generation_counter[j]]_vars

\* Both instances returned a flake for the same identifier, counter and
\* tick, and the payloads differ.
C7_Witness ==
    /\ DistinctPair
    /\ device[1] # device[2] /\ process[1] = process[2]
    /\ marked[1] # << >> /\ marked[2] # << >>
    /\ marked[1] # ret[1].flake
    /\ CounterField(marked[1]) = CounterField(marked[2])
    /\ TickField(marked[1]) = TickField(marked[2])
    /\ Payload(marked[1]) # Payload(marked[2])

BothDone == \A th \in Threads : pc[th] = "done" /\ ~t_ret[th].raised

\* C9: when both threads' calls, for one identifier and one observed tick,
\* are past update_counter before either encodes, both read the same counter
\* value at line 50 and return the identical flake.
C9_SameFlakeTwice ==
    (/\ overlap
     /\ BothDone
     /\ t_tick[1] = t_tick[2]
     /\ t_identifier[1] = t_identifier[2])
    => /\ CounterField(t_ret[1].flake) = CounterField(t_ret[2].flake)
       /\ t_ret[1].flake = t_ret[2].flake

\* Both calls are done and have returned the identical flake.
C9_Witness ==
    /\ overlap
    /\ BothDone
    /\ t_tick[1] = t_tick[2]
    /\ t_ret[1].flake = t_ret[2].flake
====
